---- MODULE Spec2Model ----
(***************************************************************************)
(* The asynchronous job pipeline of server.py: the job registry            *)
(* (job_status), the submission and status handlers, the background        *)
(* executor process_audio_task with the stages it awaits on the thread     *)
(* pool, the progress callback transcribe_audio calls on its worker        *)
(* thread, and the reaper cleanup_old_jobs.                                 *)
(*                                                                         *)
(* One action is one run of the event loop between two suspension points   *)
(* (a handler, or an executor segment between two awaits), or one          *)
(* statement of a worker thread.  Statements of a worker thread interleave *)
(* with the event loop; segments of the event loop do not interleave with  *)
(* each other.                                                             *)
(***************************************************************************)
EXTENDS Integers, Sequences, FiniteSets, TLC

\* ------------------------------------------------------------- bounds
\* How many times the clock advances.
MaxTicks == 2

\* The longest text summarize_text is applied to, in sentences.
MaxSentences == 4

\* ------------------------------------------------- program constants
RETENTION == 86400
SWEEP_INTERVAL == 3600

\* The ids uuid4 hands out (server.py:187).
JobIds == 1..2

\* The clock advances in steps of one retention period, so that a record's
\* age at a sweep is below, exactly at, or above the threshold.
ClockStep == RETENTION

\* Python's None in a string-valued field, and in the results field.
None == "None"
NoResults == <<>>
NoResponse == [handler |-> "none"]

\* Sizes of an uploaded payload, in bytes (server.py:200).
UploadSizes == {0, 2048}

\* Messages an inner conversion failure can carry (str(e) at
\* transcription.py:158); the empty string is an exception without arguments.
ConvErrors == {"No audio data found in file", ""}

VARIABLES
    job_status,   \* the registry: job id -> record
    epc,          \* per job: where its executor task is suspended
    tpc,          \* per job: where the worker thread running its stage is
    tres,         \* per job: value returned or message raised by the stage
    ucall,        \* per job: the update_status call its worker thread is in
    locals,       \* per job: the executor's transcript and summary
    now,          \* time.time()
    reaper_wake,  \* when the reaper's asyncio.sleep ends
    response,     \* what the handler run by the last step returned
    hist,         \* per job, for the properties: the update_status calls
                  \* made, the stages started, the message of the exception
                  \* the executor caught, whether a stage's outside call failed
    temp_files,   \* the temporary files on disk, as File(job, kind)
    meeting_search, \* search.py:153, the module's MeetingSearch instance
    call,         \* the function applied by the last step, its arguments
                  \* and what it returned
    options,      \* per job: the SummaryOptions its executor was given
    reaper,       \* the cleanup_old_jobs task: where it is, and its locals
    lifespan      \* where the lifespan context manager of the app is

vars == <<job_status, epc, tpc, tres, ucall, locals, now, reaper_wake, response,
          hist, temp_files, meeting_search, call, options, reaper, lifespan>>

\* The background task of the app and its lifespan.
appvars == <<reaper, lifespan>>

\* The state of the components the pipeline calls.
fnvars == <<meeting_search, call>>

NoCall == [pc |-> "none", progress |-> 0, message |-> ""]

\* server.py:40,329: the reaper task as created, suspended in asyncio.sleep.
Sleeping == [pc |-> "sleeping", current_time |-> 0, keys |-> {}, todo |-> {},
             keys_to_remove |-> {}]
NoLocals ==
    [transcript |-> [str |-> FALSE, sentences |-> <<>>], summary |-> None,
     wav_path |-> "unbound"]
NoHist ==
    [calls |-> <<>>, stages |-> <<>>, raised |-> None, envfail |-> FALSE,
     cleanup_raised |-> None]

\* No stage call is in progress for the job.
Idle == [fn |-> "none", thread |-> "none", at |-> "idle"]

\* server.py:61-63: SummaryOptions(), the defaults of the model's fields.
SummaryOptions == [num_summary_points |-> 5, summary_style |-> "Bullets"]

\* The 'options' form field of an upload: absent, or a string that is empty,
\* not JSON, JSON but not an object, or a JSON object.  In an object,
\* num_summary_points is missing, an integer, a string of digits, or some
\* other text, and summary_style is missing or a string.
NoForm == [kind |-> "absent", num_kind |-> "missing", num |-> 0,
           has_style |-> FALSE, style |-> ""]
Object(num_kind, num, has_style, style) ==
    [kind |-> "object", num_kind |-> num_kind, num |-> num,
     has_style |-> has_style, style |-> style]

\* server.py:61-76.  json.loads or the model's constructor raising takes the
\* defaults (bare except, line 75); the model (lines 61-63) declares an int
\* and a str with no constraint, so pydantic converts a string of digits and
\* takes any integer and any string.
get_options(form) ==
    IF form.kind \in {"absent", "empty"} THEN SummaryOptions
    ELSE IF form.kind # "object" THEN SummaryOptions
    ELSE IF form.num_kind = "text" THEN SummaryOptions
    ELSE [num_summary_points |-> IF form.num_kind = "missing"
                                 THEN SummaryOptions.num_summary_points
                                 ELSE form.num,
          summary_style |-> IF form.has_style THEN form.style
                            ELSE SummaryOptions.summary_style]

\* Values of num_summary_points and of summary_style a client can send.
NumKinds == {"missing", "int", "digits", "text"}
NumValues == {0, 1, 2, 3, 5, 10, 11, 50}
StyleValues == {"Bullets", "Paragraph", "Haiku", ""}

OptionForms ==
    {NoForm} \cup {[NoForm EXCEPT !.kind = k] : k \in {"empty", "invalid", "array"}}
    \cup {Object(nk, IF nk \in {"int", "digits"} THEN n ELSE 0, hs, IF hs THEN st ELSE "") :
            nk \in NumKinds, n \in NumValues, hs \in BOOLEAN, st \in StyleValues}

\* The form of the uploads in Spec: the options reach no statement of the
\* executor before line 139, so the pipeline up to there is explored with
\* the field left out; SpecOptions submits every form of OptionForms.
UploadForms == {NoForm}

\* No function of the components has been applied.
NoApply == [fn |-> "none"]

\* A text is what the tokenizers make of a Python string: its sentences in
\* order, each with its words (lower case) and the character that ends it.
\* str is FALSE for a value that is not a string (None).
Str(sents) == [str |-> TRUE, sentences |-> sents]
NoneText == [str |-> FALSE, sentences |-> <<>>]

\* A sentence made of one piece of text.
Phrase(text) == [words |-> <<text>>, end |-> ""]

\* Words of scikit-learn's 'english' stop list (search.py:61).
StopWords == {"the", "is"}

\* A value that is None, or the value v.
Unset == [set |-> FALSE, val |-> {}]
SetTo(v) == [set |-> TRUE, val |-> v]

\* search.py:25-31: the instance as constructed.
NewMeetingSearch ==
    [vectorizer |-> Unset, transcript |-> NoneText, sentences |-> <<>>,
     sentence_vectors |-> Unset]

\* The temporary files of a job: the copy of the upload (server.py:239), the
\* output of the executor's conversion (server.py:114) and the output of the
\* conversion inside transcribe_audio (transcription.py:197).
FileKinds == {"upload", "wav", "inner_wav"}
File(j, kind) == <<j, kind>>

\* What os.unlink does in the finally block: it deletes, or the call for the
\* upload or the one for the WAV raises OSError.
UnlinkOk == "ok"
UnlinkOutcomes == {"ok", "upload", "wav"}

\* ------------------------------------------------------- pure helpers

\* The empty-file test never true.
IsEmpty_Never(size) == FALSE

\* server.py:200,203: file_size == 0
IsEmpty(size) == size = 0

\* Python truthiness of a string-or-None value (server.py:297).
Truthy(v) == v # None /\ v # ""

\* dict.get(key) (server.py:102).
DictGet(d, k) == IF k \in DOMAIN d THEN d[k] ELSE None

\* check_audio.py:13-20,161: the dict check_audio_file returns.  Its keys
\* are fixed; there is no "error", "duration", "sample_rate" or "channels".
check_audio_file(exists) ==
    [file_exists |-> exists, file_size |-> 0, mime_type |-> None,
     file_extension |-> None, readable |-> exists, issues |-> <<>>]

\* The record created already complete.
NewRecord_Complete(t) ==
    [progress |-> 0, message |-> "Job started", created_at |-> t,
     updated_at |-> t, complete |-> TRUE, error |-> None,
     results |-> NoResults]

\* server.py:272-280
NewRecord(t) ==
    [progress |-> 0, message |-> "Job started", created_at |-> t,
     updated_at |-> t, complete |-> FALSE, error |-> None,
     results |-> NoResults]

\* server.py:78-85, run in one piece on the event loop.
update_status(js, j, p, m, t) ==
    IF j \in DOMAIN js
    THEN [js EXCEPT ![j].progress = p, ![j].message = m, ![j].updated_at = t]
    ELSE js

\* An unknown id answered as a job that has just started.
NotFound_AsProcessing ==
    [kind |-> "ok", status |-> "processing", progress |-> 0, message |-> ""]

\* server.py:290-291: raise HTTPException(status_code=404, ...)
NotFound == [kind |-> "http_error", code |-> 404, detail |-> "Job not found"]

\* The error response carrying the progress as well.
ErrorSnapshot_WithProgress(rec) ==
    [kind |-> "ok", status |-> "error", message |-> rec.message,
     error |-> rec.error, progress |-> rec.progress]

\* server.py:298-302
ErrorSnapshot(rec) ==
    [kind |-> "ok", status |-> "error", message |-> rec.message,
     error |-> rec.error]

\* server.py:288-314
get_job_status(js, j) ==
    IF j \notin DOMAIN js
    THEN NotFound
    ELSE IF Truthy(js[j].error)
    THEN ErrorSnapshot(js[j])
    ELSE IF js[j].complete
    THEN [kind |-> "ok", status |-> "complete", results |-> js[j].results]
    ELSE [kind |-> "ok", status |-> "processing",
          progress |-> js[j].progress, message |-> js[j].message]

\* The retention test with >= for >.
Expired_AtThreshold(rec, t) == t - rec.created_at >= RETENTION

\* The reaper sparing the records of jobs that are still being processed.
Expired_OnlyTerminal(rec, t) ==
    t - rec.created_at > RETENTION /\ (rec.complete \/ rec.error # None)

\* server.py:335
Expired(rec, t) == t - rec.created_at > RETENTION

\* str(KeyError(key)): the key's repr.
KeyErrorMsg(key) == "'" \o key \o "'"

\* The stage called directly in the coroutine: it runs on the event loop.
run_inline(fn) ==
    [fn |-> fn, thread |-> "loop",
     at |-> IF fn = "transcribe_audio" THEN "L170" ELSE "run"]

\* server.py:96,114,123,133,136,152: the stage is handed to a worker thread
\* and the executor task is suspended until it has finished.
run_in_threadpool(fn) ==
    [fn |-> fn, thread |-> "worker",
     at |-> IF fn = "transcribe_audio" THEN "L170" ELSE "run"]

\* The executor resuming while the stage call it awaits is still running.
Finished_Early(st) == TRUE

\* A stage call has finished (returned or raised).
Finished(st) == st.at \in {"ret", "exc"}

\* The update_status calls of one executor segment, in order.
RECURSIVE ApplyUpdates(_, _, _, _)
ApplyUpdates(js, j, ups, t) ==
    IF ups = <<>> THEN js
    ELSE ApplyUpdates(update_status(js, j, ups[1][1], ups[1][2], t), j, Tail(ups), t)

\* The except block reporting the bare message, without the "Error: " prefix.
Except_BareMessage(ups, msg, loc) ==
    [updates |-> Append(ups, <<0, msg>>), finish |-> "error",
     raised |-> msg, pc |-> "failed", stage |-> Idle, locals |-> loc,
     sentiment |-> None]

\* server.py:163-168: the except block of process_audio_task, entered with
\* the message of the exception caught and the update_status calls ups the
\* segment made before it was raised.
Except(ups, msg, loc) ==
    [updates |-> Append(ups, <<0, "Error: " \o msg>>), finish |-> "error",
     raised |-> msg, pc |-> "failed", stage |-> Idle, locals |-> loc,
     sentiment |-> None]

\* The segment ends at the next await: stage fn is handed to the pool.
Await(ups, pc, fn, loc) ==
    [updates |-> ups, finish |-> "await", raised |-> None, pc |-> pc,
     stage |-> run_in_threadpool(fn), locals |-> loc, sentiment |-> None]

\* server.py:89-168: the executor task resumed at the await it is suspended
\* at (pc names the line), with the finished stage call st and its value or
\* message e: the update_status calls of the segment, how it ends, and the
\* stage call it starts.  Lines 143-146 turn the bullet list into one
\* paragraph when the options ask for it.  wav_path is bound to the upload's
\* path at line 111 and to the converter's output at line 114.
Resume(pc, st, e, loc, opts) ==
    CASE pc = "queued" ->
           Await(<< <<5, "Checking audio file format...">> >>,
                 "L96", "check_audio_file", loc)
      [] pc = "L96" ->
           IF st.at = "exc" THEN Except(<<>>, e, loc)
           ELSE LET audio_info == check_audio_file(TRUE)
                    m == IF Truthy(DictGet(audio_info, "error"))
                         THEN "Audio needs conversion: " \o DictGet(audio_info, "error")
                         ELSE "Audio file: 0.00s, 0Hz, 0 channel(s)"
                IN Await(<< <<10, m>>, <<15, "Converting audio to proper format...">> >>,
                         "L114", "convert_audio_to_wav",
                         [loc EXCEPT !.wav_path = "upload"])
      [] pc = "L114" ->
           IF st.at = "exc"
           THEN Except(<< <<0, "Audio conversion failed: " \o e>> >>,
                       "Audio conversion failed: " \o e, loc)
           ELSE Await(<< <<20, "Audio converted successfully">>,
                         <<25, "Starting transcription...">> >>,
                      "L123", "transcribe_audio", [loc EXCEPT !.wav_path = "wav"])
      [] pc = "L123" ->
           IF st.at = "exc" THEN Except(<<>>, e, loc)
           ELSE Await(<< <<80, "Transcription complete. Generating summary...">> >>,
                      "L133", "index_transcript", [loc EXCEPT !.transcript = e])
      [] pc = "L133" ->
           IF st.at = "exc" THEN Except(<<>>, e, loc)
           ELSE Await(<<>>, "L136", "summarize_text", loc)
      [] pc = "L136" ->
           IF st.at = "exc" THEN Except(<<>>, e, loc)
           ELSE Await(<< <<90, "Analyzing sentiment...">> >>,
                      "L152", "analyze_sentiment",
                      [loc EXCEPT !.summary =
                          [bullets |-> opts.summary_style # "Paragraph", items |-> e]])
      [] pc = "L152" ->
           IF st.at = "exc" THEN Except(<<>>, e, loc)
           ELSE [updates |-> << <<100, "Processing complete">> >>,
                 finish |-> "complete", raised |-> None, pc |-> "succeeded",
                 stage |-> Idle, locals |-> loc, sentiment |-> e]

\* Line 168 left out: the failure is reported in the message only.
RecordError_Forgotten(js, j, msg) ==
    IF j \in DOMAIN js
    THEN [js |-> js, pc |-> "failed"]
    ELSE [js |-> js, pc |-> "crashed"]

\* The failed job also marked complete.
RecordError_MarksComplete(js, j, msg) ==
    IF j \in DOMAIN js
    THEN [js |-> [js EXCEPT ![j].error = msg, ![j].complete = TRUE], pc |-> "failed"]
    ELSE [js |-> js, pc |-> "crashed"]

\* The failed job queued again.
RecordError_Retry(js, j, msg) ==
    IF j \in DOMAIN js
    THEN [js |-> [js EXCEPT ![j].error = msg], pc |-> "queued"]
    ELSE [js |-> js, pc |-> "crashed"]

\* The failure of one job recorded in every record of the registry.
RecordError_AllJobs(js, j, msg) ==
    IF j \in DOMAIN js
    THEN [js |-> [k \in DOMAIN js |-> [js[k] EXCEPT !.error = msg]], pc |-> "failed"]
    ELSE [js |-> js, pc |-> "crashed"]

\* server.py:168: job_status[job_id]["error"] = error_message.  The
\* subscript raises KeyError when the record is gone; raised inside the
\* except block, that exception leaves the task.
RecordError(js, j, msg) ==
    IF j \in DOMAIN js
    THEN [js |-> [js EXCEPT ![j].error = msg], pc |-> "failed"]
    ELSE [js |-> js, pc |-> "crashed"]

\* The results stored without the sentiment.
RecordComplete_NoSentiment(js, j, loc, sentiment, t) ==
    IF j \in DOMAIN js
    THEN [js |-> [js EXCEPT ![j].complete = TRUE,
                            ![j].results = [transcript |-> loc.transcript,
                                            summary |-> loc.summary]],
          pc |-> "succeeded"]
    ELSE [js |-> js, pc |-> "crashed"]

\* server.py:156-161, and 163-168 when line 156 raises KeyError because the
\* record is gone: update_status is then a no-op and line 168 raises again.
RecordComplete(js, j, loc, sentiment, t) ==
    IF j \in DOMAIN js
    THEN [js |-> [js EXCEPT ![j].complete = TRUE,
                            ![j].results = [transcript |-> loc.transcript,
                                            summary |-> loc.summary,
                                            sentiment |-> sentiment]],
          pc |-> "succeeded"]
    ELSE RecordError(update_status(js, j, 0, "Error: " \o KeyErrorMsg(ToString(j)), t),
                     j, KeyErrorMsg(ToString(j)))

\* The failed job's record given the transcript the executor holds.
Finish_ExposesPartial(js, j, r, t) ==
    LET js1 == ApplyUpdates(js, j, r.updates, t)
    IN CASE r.finish = "await" -> [js |-> js1, pc |-> r.pc]
         [] r.finish = "error" ->
              LET f == RecordError(js1, j, r.raised)
              IN IF j \in DOMAIN f.js
                 THEN [f EXCEPT !.js[j].results = [transcript |-> r.locals.transcript]]
                 ELSE f
         [] r.finish = "complete" -> RecordComplete(js1, j, r.locals, r.sentiment, t)

\* The registry and the executor's position after a segment r.
Finish(js, j, r, t) ==
    LET js1 == ApplyUpdates(js, j, r.updates, t)
    IN CASE r.finish = "await" -> [js |-> js1, pc |-> r.pc]
         [] r.finish = "error" -> RecordError(js1, j, r.raised)
         [] r.finish = "complete" -> RecordComplete(js1, j, r.locals, r.sentiment, t)

\* server.py:169-177: the finally block of process_audio_task, with the
\* files on disk, the executor's wav_path and what os.unlink does.  One try
\* holds both deletions: an exception of the first (or the unbound wav_path
\* read at line 174) skips what follows and is printed at line 177.
Finally(files, j, wav_path, fs) ==
    LET upload == File(j, "upload")
        wav == File(j, "wav")
    IN IF upload \in files /\ fs = "upload"
       THEN [files |-> files, logged |-> "upload"]
       ELSE LET f1 == files \ {upload}
            IN IF wav_path = "unbound" THEN [files |-> f1, logged |-> "wav_path"]
               ELSE IF wav_path = "wav" /\ wav \in f1
               THEN IF fs = "wav" THEN [files |-> f1, logged |-> "wav"]
                    ELSE [files |-> f1 \ {wav}, logged |-> None]
               ELSE [files |-> f1, logged |-> None]

\* A cleanup failure turned into the job's failure and raised out of the task.
CleanupExcept_Escalates(js, j, f, c) ==
    IF c.logged = None THEN f
    ELSE [js |-> IF j \in DOMAIN f.js
                 THEN [f.js EXCEPT ![j].error = "Failed to clean up temp file"]
                 ELSE f.js,
          pc |-> "crashed"]

\* server.py:176-177: the handler of the finally block prints the exception;
\* the registry and the way the task ends are those reached before it.
CleanupExcept(js, j, f, c) == f

\* transcription.py:169-262: the calls of status_callback in
\* transcribe_audio, by line: the progress and message passed, and the line
\* control reaches when the call returns.  e is the message the thread holds.
Callback(at, e) ==
    CASE at = "L170" -> [progress |-> 5, next |-> "L173",
                         message |-> "Preparing audio for transcription..."]
      [] at = "L185" -> [progress |-> 8, next |-> "L187",
                         message |-> "Checking audio file format..."]
      [] at = "L190" -> [progress |-> 10, next |-> "L197",
                         message |-> "Converting audio to WAV format (original had issues: " \o e \o ")"]
      [] at = "L193" -> [progress |-> 10, next |-> "L197",
                         message |-> "Audio file looks valid"]
      [] at = "L199" -> [progress |-> 15, next |-> "L206",
                         message |-> "Audio converted to WAV format successfully"]
      [] at = "L202" -> [progress |-> 0, next |-> "L203",
                         message |-> "Audio conversion failed: " \o e]
      [] at = "L209" -> [progress |-> 0, next |-> "L210",
                         message |-> "WAV conversion produced invalid file: " \o e]
      [] at = "L229" -> [progress |-> 30, next |-> "L236",
                         message |-> "Starting transcription with AssemblyAI SDK..."]
      [] at = "L236" -> [progress |-> 40, next |-> "L239",
                         message |-> "Submitting audio for transcription..."]
      [] at = "L245" -> [progress |-> 0, next |-> "L246",
                         message |-> "Transcription failed: " \o e]
      [] at = "L249" -> [progress |-> 100, next |-> "L258",
                         message |-> "Transcription completed successfully!"]
      [] at = "L262" -> [progress |-> 0, next |-> "L263",
                         message |-> "Transcription error: " \o e]

CallbackSites ==
    {"L170", "L185", "L190", "L193", "L199", "L202", "L209", "L229", "L236",
     "L245", "L249", "L262"}

\* transcription.py:196-203, 231-263: where an exception raised at a line of
\* transcribe_audio goes: into the except block of the try it is in, or out
\* of the function.
Raise(at, msg) ==
    IF at \in {"L197", "L199"} THEN [at |-> "L202", val |-> msg]
    ELSE IF at \in {"L236", "L239", "L245", "L246", "L249"}
    THEN [at |-> "L262", val |-> msg]
    ELSE [at |-> "exc", val |-> msg]

\* What the transcription service call of line 239 can do.
AaiOutcomes ==
    {[kind |-> "text", val |-> "",
      text |-> Str(<<[words |-> <<"hello", "team">>, end |-> "."]>>)],
     [kind |-> "status_error", val |-> "Unknown error", text |-> NoneText],
     [kind |-> "raise", val |-> "", text |-> NoneText]}

\* The choices the environment has at a line of transcribe_audio.
StepChoices(at) ==
    CASE at = "L197" -> {[kind |-> "ok", val |-> None, text |-> NoneText]}
                        \cup {[kind |-> "raise", val |-> x, text |-> NoneText] : x \in ConvErrors}
      [] at = "L239" -> AaiOutcomes
      [] OTHER -> {[kind |-> "ok", val |-> None, text |-> NoneText]}

\* transcription.py:173-263: the statements of transcribe_audio between its
\* status_callback calls.  audio_info["error"] (lines 188, 207) is a
\* subscript: with no such key in the dict it raises KeyError('error').
\* The file checked at lines 173-181 is the one convert_audio_to_wav has
\* just written (transcription.py:107,145: it exists and is not empty).
TranscribeNext(at, e, o) ==
    CASE at = "L173" -> [at |-> "L185", val |-> e]
      [] at = "L187" ->
           LET audio_info == check_audio_file(TRUE)
           IN IF "error" \notin DOMAIN audio_info
              THEN Raise(at, KeyErrorMsg("error"))
              ELSE IF Truthy(audio_info["error"])
              THEN [at |-> "L190", val |-> audio_info["error"]]
              ELSE [at |-> "L193", val |-> e]
      [] at = "L197" ->
           IF o.kind = "ok" THEN [at |-> "L199", val |-> e]
           ELSE Raise(at, "Audio conversion failed: " \o o.val)
      [] at = "L203" -> [at |-> "exc", val |-> "Failed to convert audio format: " \o e]
      [] at = "L206" ->
           LET wav_info == check_audio_file(TRUE)
           IN IF "error" \notin DOMAIN wav_info
              THEN Raise(at, KeyErrorMsg("error"))
              ELSE IF Truthy(wav_info["error"])
              THEN [at |-> "L209", val |-> wav_info["error"]]
              ELSE [at |-> "L229", val |-> e]
      [] at = "L210" -> [at |-> "exc", val |-> "WAV conversion produced invalid file: " \o e]
      [] at = "L239" ->
           IF o.kind = "text" THEN [at |-> "L249", val |-> o.text]
           ELSE IF o.kind = "status_error" THEN [at |-> "L245", val |-> o.val]
           ELSE Raise(at, o.val)
      [] at = "L246" -> Raise(at, "Transcription failed: " \o e)
      [] at = "L258" -> [at |-> "ret", val |-> e]
      [] at = "L263" -> [at |-> "exc", val |-> e]

StepSites ==
    {"L173", "L187", "L197", "L203", "L206", "L210", "L239", "L246", "L258", "L263"}

\* ----------------------------------------------------------- search.py

\* The terms TfidfVectorizer(stop_words='english') keeps of a sentence.
Terms(sentence) == {sentence.words[i] : i \in 1..Len(sentence.words)} \ StopWords

\* search.py:33-68.  fit_transform raises ValueError on an empty vocabulary:
\* the except block then unsets the vectorizer and the vectors, and leaves
\* the transcript and the sentences of lines 47-54 assigned.
index_transcript(ms, transcript) ==
    IF ~transcript.str \/ transcript.sentences = <<>>
    THEN ms
    ELSE LET sents == transcript.sentences
             vocabulary == UNION {Terms(sents[i]) : i \in 1..Len(sents)}
         IN IF vocabulary = {}
            THEN [vectorizer |-> Unset, transcript |-> transcript,
                  sentences |-> sents, sentence_vectors |-> Unset]
            ELSE [vectorizer |-> SetTo(vocabulary), transcript |-> transcript,
                  sentences |-> sents,
                  sentence_vectors |-> SetTo([i \in 1..Len(sents) |-> Terms(sents[i])])]

\* search.py:97: the dot product of a sentence's vector and the query's.
\* TF-IDF weights are positive, so the product is positive exactly when the
\* two share a term of the vocabulary; the number of shared terms stands for
\* the float.
Similarity(ms, query, i) ==
    Cardinality(ms.sentence_vectors.val[i] \cap Terms(query) \cap ms.vectorizer.val)

\* search.py:100: the place of sentence i in np.argsort(similarity), from 0.
ArgsortRank(ms, query, i) ==
    Cardinality({k \in 1..Len(ms.sentences) :
                    \/ Similarity(ms, query, k) < Similarity(ms, query, i)
                    \/ Similarity(ms, query, k) = Similarity(ms, query, i) /\ k < i})

\* search.py:100: the sentences at places hi, hi-1, .., lo of the argsort,
\* each with its similarity.
RECURSIVE TopResults(_, _, _, _)
TopResults(ms, query, hi, lo) ==
    IF hi < lo THEN <<>>
    ELSE LET i == CHOOSE k \in 1..Len(ms.sentences) : ArgsortRank(ms, query, k) = hi
             rest == TopResults(ms, query, hi - 1, lo)
         IN << <<ms.sentences[i], Similarity(ms, query, i)>> >> \o rest

Max(a, b) == IF a >= b THEN a ELSE b

\* The > 0 test of line 103 left out.
Filter_KeepAll(results) == results

\* search.py:103: if similarity[i] > 0
Filter(results) == SelectSeq(results, LAMBDA r : r[2] > 0)

\* search.py:70-110: the list of (sentence, score) pairs search returns.
\* query is the sentence the query string is.
search(ms, query, num_results) ==
    IF ~ms.vectorizer.set \/ ~ms.sentence_vectors.set \/ ms.sentences = <<>>
    THEN << <<Phrase("No transcript has been indexed yet."), 0>> >>
    ELSE IF query.words = <<>>
    THEN << <<Phrase("Invalid search query."), 0>> >>
    ELSE LET n == Len(ms.sentences)
             results == Filter(TopResults(ms, query, n - 1, Max(0, n - num_results)))
         IN IF results = <<>>
            THEN << <<Phrase("No matching results found."), 0>> >>
            ELSE results

\* search.py:155-166 and server.py:316-319: the body of the response.
search_transcript(ms, query) ==
    LET results == search(ms, query, 5)
    IN [results |-> [i \in 1..Len(results) |->
                        [sentence |-> results[i][1], score |-> results[i][2]]]]

\* ---------------------------------------------------- summarization.py

\* seq[:n], for n of either sign.
Slice(seq, n) ==
    IF n >= 0 THEN SubSeq(seq, 1, IF n <= Len(seq) THEN n ELSE Len(seq))
    ELSE SubSeq(seq, 1, Max(0, Len(seq) + n))

\* max(1, a // b) for a >= 0 and b # 0: Python's // rounds down, so the
\* quotient by a negative b is negative or zero.
StepOf(a, b) == IF b < 0 THEN 1 ELSE Max(1, a \div b)

\* list(range(0, n, step)), as indices from 0.
RECURSIVE Range(_, _, _)
Range(from, n, step) ==
    IF from >= n THEN <<>> ELSE <<from>> \o Range(from + step, n, step)

\* summarization.py:152: transcript.split('. ').  A piece ends where a
\* sentence ending in a full stop is followed by another sentence.
RECURSIVE Pieces(_)
Pieces(sents) ==
    IF Len(sents) <= 1 THEN sents
    ELSE IF sents[1].end = "." THEN <<sents[1]>> \o Pieces(Tail(sents))
    ELSE LET rest == Pieces(Tail(sents))
         IN <<[words |-> sents[1].words \o rest[1].words, end |-> rest[1].end]>>
            \o Tail(rest)

\* The whole text as one item.
RECURSIVE Whole(_)
Whole(sents) ==
    IF Len(sents) <= 1 THEN sents
    ELSE LET rest == Whole(Tail(sents))
         IN <<[words |-> sents[1].words \o rest[1].words, end |-> rest[1].end]>>

\* summarization.py:157-164: the pieces at i*step for i in range(from, to).
RECURSIVE Spread(_, _, _, _)
Spread(pieces, i, to, step) ==
    IF i >= to THEN <<>>
    ELSE (IF i * step < Len(pieces) THEN <<pieces[i * step + 1]>> ELSE <<>>)
         \o Spread(pieces, i + 1, to, step)

\* summarization.py:148-173: the except block of summarize_text.  With
\* num_sentences = 1 the division of line 158 raises ZeroDivisionError and
\* the inner except returns the text as one item.
SummaryFallback(sents, num_sentences) ==
    LET pieces == Pieces(sents)
    IN IF Len(pieces) <= 3 THEN pieces
       ELSE IF num_sentences = 1 THEN Whole(sents)
       ELSE <<pieces[1]>>
            \o Spread(pieces, 1, num_sentences - 1,
                      StepOf(Len(pieces), num_sentences - 1))
            \o <<pieces[Len(pieces)]>>

\* summarization.py:89-100: how often a word that is not a stop word occurs.
WordFrequency(sents, w) ==
    LET Count(words) == Cardinality({k \in 1..Len(words) : words[k] = w})
        RECURSIVE Sum(_)
        Sum(i) == IF i = 0 THEN 0 ELSE Count(sents[i].words) + Sum(i - 1)
    IN IF w \in StopWords THEN 0 ELSE Sum(Len(sents))

\* summarization.py:116-126: the score of a sentence.  Line 113 divides every
\* frequency by the largest, which changes no comparison of two scores.
SentenceScore(sents, i) ==
    LET words == sents[i].words
        RECURSIVE Sum(_)
        Sum(k) == IF k = 0 THEN 0 ELSE WordFrequency(sents, words[k]) + Sum(k - 1)
    IN Sum(Len(words))

\* summarization.py:139-140: heapq.nlargest(n, sentence_scores, key=...) and
\* the sort: the indices of the n best scored sentences, in text order.
\* Only a sentence with a counted word has a score; of two equal scores the
\* earlier sentence comes first.
TopSentences(sents, n) ==
    LET scored == {i \in 1..Len(sents) : SentenceScore(sents, i) > 0}
        Better(k, i) == \/ SentenceScore(sents, k) > SentenceScore(sents, i)
                        \/ SentenceScore(sents, k) = SentenceScore(sents, i) /\ k < i
        top == {i \in scored : Cardinality({k \in scored : Better(k, i)}) < n}
    IN SelectSeq([i \in 1..Len(sents) |-> i], LAMBDA i : i \in top)

\* The count of line 63 tested against one sentence more.
AllFit_OneMore(sents, num_sentences) == Len(sents) <= num_sentences + 1

\* summarization.py:63
AllFit(sents, num_sentences) == Len(sents) <= num_sentences

\* summarization.py:35-173: the items of the bullet list summarize_text
\* returns ("\u2022 " + "\n\u2022 ".join(items)).  tokenizer is "raises" when
\* sent_tokenize raises (the punkt data is missing): the except block of
\* line 148 then takes over, as it does when line 105 divides by zero.
\* The branch of line 129 is left out: a sentence holding a counted word
\* has a score, so sentence_scores is not empty when word_frequencies is not.
summarize_text(transcript, num_sentences, tokenizer) ==
    IF ~transcript.str THEN <<Phrase("Invalid transcript format")>>
    ELSE IF transcript.sentences = <<>>
    THEN <<Phrase("No transcript content to summarize")>>
    ELSE LET sents == transcript.sentences
             has_frequencies == \E i \in 1..Len(sents) : SentenceScore(sents, i) > 0
         IN IF tokenizer = "raises" THEN SummaryFallback(sents, num_sentences)
            ELSE IF AllFit(sents, num_sentences) THEN sents
            ELSE IF ~has_frequencies
            THEN IF num_sentences = 0 THEN SummaryFallback(sents, num_sentences)
                 ELSE LET idx == Slice(Range(0, Len(sents), StepOf(Len(sents), num_sentences)),
                                       num_sentences)
                      IN [k \in 1..Len(idx) |-> sents[idx[k] + 1]]
            ELSE LET top == TopSentences(sents, num_sentences)
                 IN [k \in 1..Len(top) |-> sents[top[k]]]

\* The number of bullet markers in "\u2022 " + "\n\u2022 ".join(items).
Bullets(items) == IF items = <<>> THEN 1 ELSE Len(items)

\* What sent_tokenize does in a call of summarize_text.
Tokenizers == {"ok", "raises"}

\* The message of the exception run_in_threadpool raises when no worker
\* thread can be started for the call.
PoolErrors == {"can't start new thread"}

\* The outcomes of a stage that is one call for the executor, for the
\* transcript and the options it is called with.  index_transcript,
\* summarize_text and analyze_sentiment catch every exception of their own
\* (search.py:50-68, summarization.py:148-173, sentiment.py:146-151): the
\* awaited call raises only when the pool cannot run it.
StageOutcomes(fn, transcript, opts) ==
    CASE fn = "convert_audio_to_wav" ->
           {[at |-> "ret", val |-> None]}
           \cup {[at |-> "exc", val |-> "Audio conversion failed: " \o x] : x \in ConvErrors}
      [] fn = "index_transcript" ->
           {[at |-> "ret", val |-> None]}
           \cup {[at |-> "exc", val |-> x] : x \in PoolErrors}
      [] fn = "summarize_text" ->
           {[at |-> "ret", val |-> summarize_text(transcript, opts.num_summary_points, tk)] :
               tk \in Tokenizers}
           \cup {[at |-> "exc", val |-> x] : x \in PoolErrors}
      [] fn = "analyze_sentiment" ->
           {[at |-> "ret", val |-> "sentiment"]}
           \cup {[at |-> "exc", val |-> x] : x \in PoolErrors}
      [] OTHER -> {[at |-> "ret", val |-> None]}

\* The event loop with a suspension point inside the sweep.
LoopFree_SweepAwaits == \A j \in JobIds : tpc[j].thread = "loop" => Finished(tpc[j])

\* The event loop is not inside a stage call nor inside a sweep of the
\* reaper (server.py:330-341 has no await).
LoopFree ==
    /\ \A j \in JobIds : tpc[j].thread = "loop" => Finished(tpc[j])
    /\ reaper.pc \notin {"scanning", "deleting"}

\* ------------------------------------------------- file_validation.py

\* What an upload is and what the tools of the host say of its temporary
\* file: the declared content type; whether python-magic is installed and
\* the MIME type it finds; what ffprobe lists ("missing": no ffprobe); what
\* librosa.get_duration does ("missing": no librosa).
Uploads ==
    [declared : {"audio", "other", "none"},
     magic : BOOLEAN,
     sniffed : {"audio/mpeg", "text/plain"},
     ffprobe : {"missing", "audio", "none"},
     librosa : {"missing", "positive", "zero", "raises"}]

\* An audio file sent as audio, on a host with none of the optional tools.
AudioUpload ==
    [declared |-> "audio", magic |-> FALSE, sniffed |-> "audio/mpeg",
     ffprobe |-> "missing", librosa |-> "missing"]

\* str.startswith('audio/') or str.startswith('video/') of a MIME type.
AudioOrVideo(mime) == mime \in {"audio/mpeg", "video/mp4"}

\* file_validation.py:6-98, for the temporary file of a non-empty upload: it
\* exists and its suffix is a recognized extension (server.py:215-241), for
\* which mimetypes guesses an audio or video type or none.
validate_audio_file(size, upload) ==
    IF size = 0 THEN [is_valid |-> FALSE, message |-> "File is empty (0 bytes)"]
    ELSE IF upload.magic /\ ~AudioOrVideo(upload.sniffed)
    THEN [is_valid |-> FALSE,
          message |-> "File does not appear to be audio. MIME type: " \o upload.sniffed]
    ELSE IF upload.ffprobe = "none"
    THEN [is_valid |-> FALSE,
          message |-> "File does not contain valid audio streams according to FFprobe"]
    ELSE IF upload.librosa = "zero"
    THEN [is_valid |-> FALSE,
          message |-> "File could not be read as audio by librosa (zero duration)"]
    ELSE IF upload.librosa = "raises"
    THEN [is_valid |-> FALSE, message |-> "File could not be read as audio by librosa: "]
    ELSE [is_valid |-> TRUE, message |-> "File appears to be a valid audio file"]

\* server.py:193-196, 248-269: the warnings process_audio prints.
Warnings(size, upload) ==
    (IF upload.declared = "other" THEN {"content-type"} ELSE {})
    \cup (IF upload.magic /\ ~AudioOrVideo(upload.sniffed) THEN {"python-magic"} ELSE {})
    \cup (IF ~validate_audio_file(size, upload).is_valid
          THEN {"Audio validation failed: " \o validate_audio_file(size, upload).message}
          ELSE {})

\* The upload refused when validate_audio_file finds it invalid.
Rejected_OnInvalid(size, upload) ==
    IsEmpty(size) \/ ~validate_audio_file(size, upload).is_valid

\* server.py:193-269: the one raise of process_audio before the record is
\* created is that of line 204.
Rejected(size, upload) == IsEmpty(size)

\* -------------------------------------------------------------- Init
Init ==
    /\ job_status = << >>
    /\ epc = [j \in JobIds |-> "none"]
    /\ tpc = [j \in JobIds |-> Idle]
    /\ tres = [j \in JobIds |-> None]
    /\ ucall = [j \in JobIds |-> NoCall]
    /\ locals = [j \in JobIds |-> NoLocals]
    /\ now = 0
    /\ reaper_wake = SWEEP_INTERVAL
    /\ response = NoResponse
    /\ hist = [j \in JobIds |-> NoHist]
    /\ temp_files = {}
    /\ meeting_search = NewMeetingSearch
    /\ call = NoApply
    /\ options = [j \in JobIds |-> SummaryOptions]
    /\ reaper = Sleeping
    /\ lifespan = "serving"

\* ----------------------------------------------------------- actions

\* time passes
Tick ==
    /\ now + ClockStep <= MaxTicks * ClockStep
    /\ now' = now + ClockStep
    /\ response' = NoResponse
    /\ UNCHANGED <<job_status, epc, tpc, tres, ucall, locals, reaper_wake, hist>>
    /\ UNCHANGED <<temp_files, meeting_search, call, options>>
    /\ UNCHANGED appvars

\* server.py:180-286: an upload of size bytes.  uuid4 gives an id never
\* used before; the ids are taken in order, which loses nothing since the
\* program does not look inside an id.  An empty upload is refused before
\* anything is created (line 203).  upload says what the checks of lines
\* 193-196 and 248-269 find; their findings are printed (warnings).
process_audio(j, size, form, upload) ==
    /\ LoopFree
    /\ epc[j] = "none"
    /\ \A k \in JobIds : k < j => epc[k] # "none"
    /\ IF Rejected(size, upload)
       THEN /\ response' = [handler |-> "process_audio", file_size |-> size,
                            body |-> [kind |-> "http_error", code |-> 400,
                                      detail |-> "File is empty (0 bytes)"]]
            /\ UNCHANGED <<job_status, epc, hist, temp_files, options>>
       ELSE /\ temp_files' = temp_files \cup {File(j, "upload")}
            /\ options' = [options EXCEPT ![j] = get_options(form)]
            /\ job_status' = (j :> NewRecord(now)) @@ job_status
            /\ epc' = [epc EXCEPT ![j] = "queued"]
            /\ response' = [handler |-> "process_audio", file_size |-> size,
                            upload |-> upload,
                            warnings |-> Warnings(size, upload),
                            body |-> [kind |-> "ok", job_id |-> j,
                                      status |-> "processing"]]
            /\ hist' = [hist EXCEPT ![j].calls = << <<0, "Job started">> >>]
    /\ UNCHANGED <<tpc, tres, ucall, locals, now, reaper_wake>>
    /\ UNCHANGED fnvars
    /\ UNCHANGED appvars

\* The poll that hands a terminal snapshot out once and drops the record.
GetJobStatus_ReadOnce(j) ==
    /\ LoopFree
    /\ response' = [handler |-> "get_job_status", job_id |-> j,
                    body |-> get_job_status(job_status, j)]
    /\ job_status' = IF j \in DOMAIN job_status /\ job_status[j].error # None
                     THEN [k \in DOMAIN job_status \ {j} |-> job_status[k]]
                     ELSE job_status
    /\ UNCHANGED <<epc, tpc, tres, ucall, locals, now, reaper_wake, hist>>
    /\ UNCHANGED <<temp_files, meeting_search, call, options>>
    /\ UNCHANGED appvars

\* server.py:288-314
GetJobStatus(j) ==
    /\ LoopFree
    /\ response' = [handler |-> "get_job_status", job_id |-> j,
                    body |-> get_job_status(job_status, j)]
    /\ UNCHANGED <<job_status, epc, tpc, tres, ucall, locals, now, reaper_wake, hist>>
    /\ UNCHANGED <<temp_files, meeting_search, call, options>>
    /\ UNCHANGED appvars

\* server.py:328-341, one pass of the loop after the sleep has ended.
cleanup_old_jobs ==
    /\ LoopFree
    /\ reaper.pc = "sleeping"
    /\ now >= reaper_wake
    /\ LET keys_to_remove == {j \in DOMAIN job_status : Expired(job_status[j], now)}
       IN job_status' = [j \in DOMAIN job_status \ keys_to_remove |-> job_status[j]]
    /\ reaper_wake' = now + SWEEP_INTERVAL
    /\ response' = NoResponse
    /\ UNCHANGED <<epc, tpc, tres, ucall, locals, now, hist>>
    /\ UNCHANGED <<temp_files, meeting_search, call, options>>
    /\ UNCHANGED appvars

\* server.py:87-177: the executor task runs from one await to the next; when
\* it ends, the finally block runs, fs being what os.unlink does in it.
process_audio_task(j, fs) ==
    /\ LoopFree
    /\ \/ epc[j] = "queued"
       \/ epc[j] \in {"L96", "L114", "L123", "L133", "L136", "L152"} /\ Finished(tpc[j])
    /\ LET r == Resume(epc[j], tpc[j], tres[j], locals[j], options[j])
           f0 == Finish(job_status, j, r, now)
           ends == f0.pc \in {"succeeded", "failed", "crashed"}
           c == IF ends THEN Finally(temp_files, j, r.locals.wav_path, fs)
                ELSE [files |-> temp_files, logged |-> None]
           f == CleanupExcept(job_status, j, f0, c)
       IN /\ job_status' = f.js
          /\ epc' = [epc EXCEPT ![j] = f.pc]
          /\ tpc' = [tpc EXCEPT ![j] = r.stage]
          /\ locals' = [locals EXCEPT ![j] = r.locals]
          /\ hist' = [hist EXCEPT ![j].calls = @ \o r.updates,
                                  ![j].stages = IF r.stage = Idle THEN @
                                                ELSE Append(@, r.stage.fn),
                                  ![j].raised = r.raised,
                                  ![j].cleanup_raised = c.logged]
          /\ temp_files' = c.files
    /\ tres' = [tres EXCEPT ![j] = None]
    /\ response' = NoResponse
    /\ UNCHANGED <<ucall, now, reaper_wake, options>>
    /\ UNCHANGED fnvars
    /\ UNCHANGED appvars

\* A stage other than transcribe_audio runs on its thread and finishes.
\* convert_audio_to_wav leaves its output file when it returns and removes
\* it before it raises (transcription.py:59,109,149,153-157).
StageRun(j) ==
    /\ tpc[j].at = "run"
    /\ \E o \in StageOutcomes(tpc[j].fn, locals[j].transcript, options[j]) :
          /\ tpc' = [tpc EXCEPT ![j].at = o.at]
          /\ tres' = [tres EXCEPT ![j] = o.val]
          /\ hist' = [hist EXCEPT ![j].envfail = @ \/ o.at = "exc"]
          /\ meeting_search' = IF tpc[j].fn = "index_transcript" /\ o.at = "ret"
                               THEN index_transcript(meeting_search, locals[j].transcript)
                               ELSE meeting_search
          /\ temp_files' = IF tpc[j].fn = "convert_audio_to_wav" /\ o.at = "ret"
                            THEN temp_files \cup {File(j, "wav")}
                            ELSE temp_files
    /\ response' = NoResponse
    /\ UNCHANGED <<job_status, epc, ucall, locals, now, reaper_wake>>
    /\ UNCHANGED <<call, options>>
    /\ UNCHANGED appvars

\* transcription.py:173-263: one statement of transcribe_audio.  The
\* conversion of line 197 leaves its output file, which lines 252-256 remove
\* before the transcript is returned.
TranscribeStep(j) ==
    /\ tpc[j].at \in StepSites
    /\ \E o \in StepChoices(tpc[j].at) :
          LET n == TranscribeNext(tpc[j].at, tres[j], o)
          IN /\ tpc' = [tpc EXCEPT ![j].at = n.at]
             /\ tres' = [tres EXCEPT ![j] = n.val]
             /\ hist' = [hist EXCEPT ![j].envfail = @ \/ o.kind \notin {"ok", "text"}]
             /\ temp_files' =
                   CASE tpc[j].at = "L197" /\ o.kind = "ok" ->
                          temp_files \cup {File(j, "inner_wav")}
                     [] tpc[j].at = "L258" -> temp_files \ {File(j, "inner_wav")}
                     [] OTHER -> temp_files
    /\ response' = NoResponse
    /\ UNCHANGED <<job_status, epc, ucall, locals, now, reaper_wake>>
    /\ UNCHANGED <<meeting_search, call, options>>
    /\ UNCHANGED appvars

\* server.py:91-92,80: transcribe_audio calls status_callback, which calls
\* update_status on the worker thread; the test of line 80.
StatusCallback(j) ==
    /\ tpc[j].at \in CallbackSites
    /\ ucall[j].pc = "none"
    /\ LET c == Callback(tpc[j].at, tres[j])
       IN IF j \in DOMAIN job_status
          THEN /\ ucall' = [ucall EXCEPT ![j] = [pc |-> "L81", progress |-> c.progress,
                                                 message |-> c.message]]
               /\ tpc' = tpc
          ELSE /\ ucall' = ucall
               /\ tpc' = [tpc EXCEPT ![j].at = c.next]
    /\ response' = NoResponse
    /\ UNCHANGED <<job_status, epc, tres, locals, now, reaper_wake, hist>>
    /\ UNCHANGED <<temp_files, meeting_search, call, options>>
    /\ UNCHANGED appvars

\* server.py:81-83: the three subscript assignments of update_status, each
\* a statement of the worker thread.  With the record deleted since line 80,
\* job_status[job_id] raises KeyError in the callback.
UpdateStatusWrite(j) ==
    /\ ucall[j].pc \in {"L81", "L82", "L83"}
    /\ IF j \notin DOMAIN job_status
       THEN LET r == Raise(tpc[j].at, KeyErrorMsg(ToString(j)))
            IN /\ tpc' = [tpc EXCEPT ![j].at = r.at]
               /\ tres' = [tres EXCEPT ![j] = r.val]
               /\ ucall' = [ucall EXCEPT ![j] = NoCall]
               /\ job_status' = job_status
       ELSE /\ job_status' =
                  CASE ucall[j].pc = "L81" ->
                         [job_status EXCEPT ![j].progress = ucall[j].progress]
                    [] ucall[j].pc = "L82" ->
                         [job_status EXCEPT ![j].message = ucall[j].message]
                    [] ucall[j].pc = "L83" ->
                         [job_status EXCEPT ![j].updated_at = now]
            /\ ucall' = [ucall EXCEPT ![j] =
                           CASE ucall[j].pc = "L81" -> [ucall[j] EXCEPT !.pc = "L82"]
                             [] ucall[j].pc = "L82" -> [ucall[j] EXCEPT !.pc = "L83"]
                             [] ucall[j].pc = "L83" -> NoCall]
            /\ tpc' = IF ucall[j].pc = "L83"
                      THEN [tpc EXCEPT ![j].at = Callback(tpc[j].at, tres[j]).next]
                      ELSE tpc
            /\ tres' = tres
    /\ hist' = IF ucall[j].pc = "L81" /\ j \in DOMAIN job_status
               THEN [hist EXCEPT ![j].calls =
                        Append(@, <<ucall[j].progress, ucall[j].message>>)]
               ELSE hist
    /\ response' = NoResponse
    /\ UNCHANGED <<epc, locals, now, reaper_wake>>
    /\ UNCHANGED <<temp_files, meeting_search, call, options>>
    /\ UNCHANGED appvars

Next ==
    \/ Tick
    \/ \E j \in JobIds, size \in UploadSizes, form \in UploadForms :
          process_audio(j, size, form, AudioUpload)
    \/ \E j \in JobIds : GetJobStatus(j)
    \/ cleanup_old_jobs
    \/ \E j \in JobIds : process_audio_task(j, UnlinkOk)
    \/ \E j \in JobIds : StageRun(j)
    \/ \E j \in JobIds : TranscribeStep(j)
    \/ \E j \in JobIds : StatusCallback(j)
    \/ \E j \in JobIds : UpdateStatusWrite(j)

Spec == Init /\ [][Next]_vars
\* ------------------------------------------------------- properties

Present(j) == j \in DOMAIN job_status

\* The record is COMPLETE or ERROR.
Terminal(rec) == rec.complete \/ rec.error # None

\* The executor task of the job is over.
Over(j) == epc[j] \in {"succeeded", "failed", "crashed"}

\* A stage call of the job is running.
StageInProgress(j) == tpc[j].fn # "none" /\ ~Finished(tpc[j])

RECURSIVE NonDecreasing(_)
NonDecreasing(ups) ==
    \/ Len(ups) < 2
    \/ ups[1][1] <= ups[2][1] /\ NonDecreasing(Tail(ups))

\* transcribe_audio never gets past line 188, and no job ever succeeds.
TranscriptionAlwaysRaises ==
    \A j \in JobIds :
        /\ tpc[j].at \in {"idle", "run", "ret", "exc", "L170", "L173", "L185", "L187"}
        /\ tpc[j].fn = "transcribe_audio" => tpc[j].at # "ret"
        /\ epc[j] \notin {"L133", "L136", "L152", "succeeded"}
\* C1: for every job that is not yet COMPLETE or ERROR, the progress values
\* written to its record so far, by the executor's milestones and by the
\* updates forwarded from the transcription callback, form a non-decreasing
\* sequence.
C1_ProgressNonDecreasing ==
    \A j \in JobIds :
        (Present(j) /\ ~Terminal(job_status[j])) => NonDecreasing(hist[j].calls)

\* C3: once the reaper has evicted the record of a job whose executor is
\* still running, no step re-creates the record and no exception leaves the
\* executor task.
C3_LateWritesAreNoOps ==
    [][\A j \in JobIds :
          (epc[j] # "none" /\ ~Present(j)) =>
              (j \notin DOMAIN job_status' /\ epc'[j] # "crashed")]_vars

\* C6: the progress and the message of a 'processing' response to a status
\* poll are those of one update_status call (or of the record as created).
C6_NoTornRead ==
    (response.handler = "get_job_status" /\ response.body.kind = "ok"
        /\ response.body.status = "processing") =>
        \E c \in 1..Len(hist[response.job_id].calls) :
            hist[response.job_id].calls[c]
                = <<response.body.progress, response.body.message>>

\* C8: a job whose conversion and transcription-service calls did not fail
\* is COMPLETE when its executor is over, with a transcript, a summary and a
\* sentiment in its results.
C8_ValidAudioCompletes ==
    \A j \in JobIds :
        (Over(j) /\ ~hist[j].envfail /\ Present(j)) =>
            /\ job_status[j].complete
            /\ job_status[j].results # NoResults
            /\ DOMAIN job_status[j].results = {"transcript", "summary", "sentiment"}
\* The executor caught an exception of a stage and its task is over.
Failed(j) == hist[j].raised # None /\ Over(j)

PipelineOrder ==
    <<"check_audio_file", "convert_audio_to_wav", "transcribe_audio",
      "index_transcript", "summarize_text", "analyze_sentiment">>

IsPrefix(a, b) == Len(a) <= Len(b) /\ \A i \in 1..Len(a) : a[i] = b[i]

C4_ResultErrorExclusive ==
    \A j \in DOMAIN job_status :
        LET r == job_status[j]
        IN \/ r.complete /\ r.results # NoResults /\ r.error = None
           \/ ~r.complete /\ r.results = NoResults /\ r.error # None
           \/ ~r.complete /\ r.results = NoResults /\ r.error = None

C4_Witness ==
    \E j \in DOMAIN job_status :
        /\ job_status[j].error # None /\ job_status[j].results = NoResults
        /\ response.handler = "get_job_status" /\ response.job_id = j
        /\ \E k \in DOMAIN job_status :
              job_status[k].error = None /\ job_status[k].progress > 0

\* C5: a record that is COMPLETE or ERROR is left unchanged by every step;
\* the only change is its removal, by a sweep of the reaper.
C5_TerminalImmutable ==
    [][\A j \in JobIds :
          (Present(j) /\ Terminal(job_status[j])) =>
              IF j \in DOMAIN job_status'
              THEN job_status'[j] = job_status[j]
              ELSE reaper_wake' # reaper_wake]_vars

C5_Witness ==
    \E j \in JobIds :
        /\ Present(j) /\ Terminal(job_status[j])
        /\ now > job_status[j].updated_at
        /\ response.handler = "get_job_status" /\ response.job_id = j
        /\ \E k \in JobIds : StageInProgress(k)

\* C7: every stage call of an executor runs on a worker thread, and while a
\* stage call of any job is in progress a status poll for every job id can
\* be served.
C7_StagesOffEventLoop ==
    \A j \in JobIds :
        tpc[j].fn # "none" =>
            /\ tpc[j].thread = "worker"
            /\ StageInProgress(j) => \A k \in JobIds : ENABLED GetJobStatus(k)

C7_Witness ==
    \E j, k \in JobIds :
        /\ j # k
        /\ tpc[j].fn = "transcribe_audio" /\ StageInProgress(j)
        /\ response.handler = "get_job_status" /\ response.job_id = k
        /\ response.body.kind = "ok"

\* C9: when a stage of a job has raised, no later stage is started and none
\* is started twice, and the job's record, while in the registry, has error
\* equal to the message of the exception the executor caught, message equal
\* to "Error: " followed by it, and no results; a job whose conversion
\* failed has a non-empty error.
C9_FailFast ==
    \A j \in JobIds :
        Failed(j) =>
            /\ tpc[j] = Idle
            /\ IsPrefix(hist[j].stages, PipelineOrder)
            /\ Present(j) =>
                  /\ job_status[j].error = hist[j].raised
                  /\ job_status[j].message = "Error: " \o hist[j].raised
                  /\ job_status[j].progress = 0
                  /\ job_status[j].results = NoResults
                  /\ ~job_status[j].complete
                  /\ hist[j].stages = SubSeq(PipelineOrder, 1, 2)
                        => job_status[j].error \notin {None, ""}

C9_Witness ==
    \E j \in JobIds :
        /\ Failed(j) /\ Present(j)
        /\ hist[j].stages = SubSeq(PipelineOrder, 1, 2)
        /\ job_status[j].error = "Audio conversion failed: Audio conversion failed: "
        /\ \E k \in JobIds :
              /\ Failed(k) /\ Present(k)
              /\ hist[k].stages = SubSeq(PipelineOrder, 1, 3)

\* C10: a sweep removes a record if and only if now - created_at > 86400,
\* whatever the job's state, and leaves the others as they are; no other
\* step removes a record.
C10_SweepRemovesExactlyExpired ==
    [][/\ reaper_wake' # reaper_wake =>
            \A j \in DOMAIN job_status :
                /\ j \notin DOMAIN job_status' <=> now - job_status[j].created_at > 86400
                /\ j \in DOMAIN job_status' => job_status'[j] = job_status[j]
       /\ reaper_wake' = reaper_wake => DOMAIN job_status \subseteq DOMAIN job_status']_vars

C10_Witness ==
    \E j, k \in JobIds :
        /\ ~Present(j) /\ StageInProgress(j)
        /\ Present(k) /\ now - job_status[k].created_at = RETENTION
        /\ reaper_wake = now + SWEEP_INTERVAL

\* C11: an upload of zero bytes is answered with the 400 error "File is empty
\* (0 bytes)", and the step that answers it leaves the registry, the
\* temporary files and every executor task and stage call as they were: no
\* record is created, no file is written, no executor is scheduled.
C11_EmptyUploadRejected ==
    [][(response'.handler = "process_audio" /\ response'.file_size = 0) =>
          /\ response'.body = [kind |-> "http_error", code |-> 400,
                               detail |-> "File is empty (0 bytes)"]
          /\ job_status' = job_status
          /\ temp_files' = temp_files
          /\ epc' = epc
          /\ tpc' = tpc]_vars

C11_Witness ==
    /\ response.handler = "process_audio"
    /\ response.file_size = 0
    /\ response.body.kind = "http_error"
    /\ temp_files # {}
    /\ \E j \in JobIds : epc[j] = "none"

C13_UnknownIdNotFound ==
    \A j \in JobIds :
        (response.handler = "get_job_status" /\ response.job_id = j) =>
            IF j \notin DOMAIN job_status
            THEN response.body = [kind |-> "http_error", code |-> 404,
                                  detail |-> "Job not found"]
            ELSE /\ response.body.kind = "ok"
                 /\ response.body.status \in {"processing", "complete", "error"}

C13_Witness ==
    \E j, k \in JobIds :
        /\ epc[j] \notin {"none", "failed", "crashed", "succeeded"}
        /\ ~Present(j)
        /\ response.handler = "get_job_status" /\ response.job_id = j
        /\ response.body.kind = "http_error"
        /\ epc[k] = "none"

\* C14: the body of a status response for an id in the registry is exactly
\* {status 'error', message, error} when the record's error is set, exactly
\* {status 'complete', results} when it is not and the job is complete, and
\* exactly {status 'processing', progress, message} otherwise, each field
\* with the value the record has.
C14_SnapshotShape ==
    \A j \in DOMAIN job_status :
        (response.handler = "get_job_status" /\ response.job_id = j) =>
            LET rec == job_status[j]
                b == response.body
            IN /\ rec.error # None =>
                     b = [kind |-> "ok", status |-> "error",
                          message |-> rec.message, error |-> rec.error]
               /\ (rec.error = None /\ rec.complete) =>
                     b = [kind |-> "ok", status |-> "complete", results |-> rec.results]
               /\ (rec.error = None /\ ~rec.complete) =>
                     b = [kind |-> "ok", status |-> "processing",
                          progress |-> rec.progress, message |-> rec.message]

C14_Witness ==
    \E j \in DOMAIN job_status :
        /\ response.handler = "get_job_status" /\ response.job_id = j
        /\ response.body.status = "error"
        /\ response.body.error = "'error'"
        /\ response.body.message = "Error: 'error'"

\* C15: a status poll changes nothing but the response it returns, for ids
\* with and without a record; and a poll that follows a poll of the same id
\* with no step in between returns the same response.
C15_PollIsReadOnly ==
    [][response'.handler = "get_job_status" =>
          /\ UNCHANGED <<job_status, epc, tpc, tres, ucall, locals, now,
                         reaper_wake, hist, temp_files, meeting_search, call,
                         options, reaper, lifespan>>
          /\ (response.handler = "get_job_status"
                  /\ response.job_id = response'.job_id) => response' = response]_vars

C15_Witness ==
    \E j, k \in JobIds :
        /\ Present(j) /\ Terminal(job_status[j])
        /\ response.handler = "get_job_status" /\ response.job_id = j
        /\ response.body.status = "error"
        /\ ~Present(k) /\ epc[k] # "none"

\* ------------------------------------------- the analysis stages
\* The pipeline from the point where transcribe_audio has returned a
\* transcript to each executor: the stages of lines 129-161, the status
\* polls and the search endpoint, with the clock standing still.

\* Sentences of a meeting.
Budget == [words |-> <<"budget", "approved">>, end |-> "."]
Deadline == [words |-> <<"the", "deadline", "moved">>, end |-> "."]
Filler == [words |-> <<"is", "the">>, end |-> "?"]

\* The transcripts the transcription service returns, per job.
TranscribedTexts ==
    {t \in [JobIds -> {Str(<<Budget, Filler>>), Str(<<Deadline>>), Str(<<Filler>>)}] :
        t[1] = Str(<<Budget, Filler>>) /\ t[2] # t[1]}

\* The options the executors were given, per job.
TranscribedOptions ==
    {o \in [JobIds -> {get_options(NoForm),
                       get_options(Object("int", 1, TRUE, "Paragraph"))}] :
        o[2] = get_options(NoForm)}

\* The query strings of POST /search/.
Queries == {[words |-> <<"budget">>, end |-> ""],
            [words |-> <<"lunch">>, end |-> ""],
            [words |-> <<>>, end |-> ""]}

\* The update_status calls up to the return of transcribe_audio
\* (server.py:95-122, transcription.py:170-249).
TranscribedCalls ==
    << <<0, "Job started">>, <<5, "Checking audio file format...">>,
       <<10, "Audio file: 0.00s, 0Hz, 0 channel(s)">>,
       <<15, "Converting audio to proper format...">>,
       <<20, "Audio converted successfully">>, <<25, "Starting transcription...">>,
       <<5, "Preparing audio for transcription...">>,
       <<8, "Checking audio file format...">>, <<10, "Audio file looks valid">>,
       <<30, "Starting transcription with AssemblyAI SDK...">>,
       <<40, "Submitting audio for transcription...">>,
       <<100, "Transcription completed successfully!">> >>

InitTranscribed ==
    /\ job_status = [j \in JobIds |->
                       [NewRecord(0) EXCEPT !.progress = 100,
                            !.message = "Transcription completed successfully!"]]
    /\ epc = [j \in JobIds |-> "L123"]
    /\ tpc = [j \in JobIds |-> [run_in_threadpool("transcribe_audio") EXCEPT !.at = "ret"]]
    /\ tres \in TranscribedTexts
    /\ ucall = [j \in JobIds |-> NoCall]
    /\ locals = [j \in JobIds |-> [NoLocals EXCEPT !.wav_path = "wav"]]
    /\ now = 0
    /\ reaper_wake = SWEEP_INTERVAL
    /\ response = NoResponse
    /\ hist = [j \in JobIds |->
                 [NoHist EXCEPT !.calls = TranscribedCalls,
                                !.stages = SubSeq(PipelineOrder, 1, 3)]]
    /\ temp_files = {File(j, k) : j \in JobIds, k \in {"upload", "wav"}}
    /\ meeting_search = NewMeetingSearch
    /\ call = NoApply
    /\ options \in TranscribedOptions
    /\ reaper = Sleeping
    /\ lifespan = "serving"

\* server.py:316-319 with search.py:155-166: POST /search/.
SearchTranscript(q) ==
    /\ LoopFree
    /\ response' = [handler |-> "search_transcript", query |-> q,
                    body |-> search_transcript(meeting_search, q)]
    /\ UNCHANGED <<job_status, epc, tpc, tres, ucall, locals, now, reaper_wake,
                   hist, temp_files, meeting_search, call, options>>
    /\ UNCHANGED appvars

NextTranscribed ==
    \/ \E j \in JobIds : GetJobStatus(j)
    \/ \E j \in JobIds : process_audio_task(j, UnlinkOk)
    \/ \E j \in JobIds : StageRun(j)
    \/ \E q \in Queries : SearchTranscript(q)

SpecTranscribed == InitTranscribed /\ [][NextTranscribed]_vars

\* The executor of job j caught an exception after transcribe_audio had
\* returned: it had started the indexing stage or a later one.
FailedAfterTranscription(j) == Failed(j) /\ Len(hist[j].stages) >= 4

\* C16: a job whose indexing, summarization or sentiment stage raised has,
\* while its record is in the registry, no results in it, and the status
\* response for it is the error snapshot {status, message, error}; and no
\* status response for a job that has not completed carries a results field.
C16_NoPartialResults ==
    \A j \in JobIds :
        /\ (FailedAfterTranscription(j) /\ Present(j)) =>
              /\ job_status[j].results = NoResults
              /\ get_job_status(job_status, j)
                    = [kind |-> "ok", status |-> "error",
                       message |-> "Error: " \o hist[j].raised,
                       error |-> hist[j].raised]
        /\ (response.handler = "get_job_status" /\ response.job_id = j
               /\ epc[j] # "succeeded") =>
              "results" \notin DOMAIN response.body

C16_Witness ==
    \E j \in JobIds :
        /\ FailedAfterTranscription(j) /\ Present(j)
        /\ hist[j].stages = SubSeq(PipelineOrder, 1, 5)
        /\ locals[j].transcript.str
        /\ response.handler = "get_job_status" /\ response.job_id = j
        /\ response.body.status = "error"

\* ------------------------------------------------- the submissions
\* Uploads with every form of the options field.
NextOptions ==
    \E j \in JobIds, size \in UploadSizes, form \in OptionForms :
        process_audio(j, size, form, AudioUpload)

SpecOptions == Init /\ [][NextOptions]_vars

\* C17: the options every scheduled executor was given have
\* 3 <= num_summary_points <= 10 and summary_style Bullets or Paragraph.
C17_OptionsInRange ==
    \A j \in JobIds :
        epc[j] # "none" =>
            /\ options[j].num_summary_points >= 3
            /\ options[j].num_summary_points <= 10
            /\ options[j].summary_style \in {"Bullets", "Paragraph"}

\* ------------------------------------------------ summarize_text alone
\* The sentences the texts are made of: with and without a counted word,
\* ending in a full stop or not.
SentenceKinds ==
    {[words |-> w, end |-> e] : w \in {<<"budget", "approved">>, <<"is", "the">>},
                               e \in {".", "?"}}

RECURSIVE SeqsUpTo(_, _)
SeqsUpTo(S, n) ==
    IF n = 0 THEN {<<>>}
    ELSE LET shorter == SeqsUpTo(S, n - 1)
         IN shorter \cup {Append(q, x) : q \in {r \in shorter : Len(r) = n - 1}, x \in S}

SummarizedTexts == {NoneText} \cup {Str(q) : q \in SeqsUpTo(SentenceKinds, MaxSentences)}

\* Values of num_summary_points get_options hands to the executor.
PointCounts == {-1, 0, 1, 2, 3, 4, 10}

InitSummarize ==
    /\ job_status = << >>
    /\ epc = [j \in JobIds |-> "none"]
    /\ tpc = [j \in JobIds |-> Idle]
    /\ tres = [j \in JobIds |-> None]
    /\ ucall = [j \in JobIds |-> NoCall]
    /\ locals = [j \in JobIds |-> NoLocals]
    /\ now = 0
    /\ reaper_wake = SWEEP_INTERVAL
    /\ response = NoResponse
    /\ hist = [j \in JobIds |-> NoHist]
    /\ temp_files = {}
    /\ meeting_search = NewMeetingSearch
    /\ options = [j \in JobIds |-> SummaryOptions]
    /\ reaper = Sleeping
    /\ lifespan = "serving"
    /\ call \in {[fn |-> "summarize_text", at |-> "called", transcript |-> t,
                  num_sentences |-> n, tokenizer |-> tk, ret |-> <<>>] :
                    t \in SummarizedTexts, n \in PointCounts, tk \in Tokenizers}

\* summarization.py:35-173: the call returns.
SummarizeText ==
    /\ call.fn = "summarize_text"
    /\ call.at = "called"
    /\ call' = [call EXCEPT !.at = "returned",
                            !.ret = summarize_text(call.transcript, call.num_sentences,
                                                   call.tokenizer)]
    /\ UNCHANGED <<job_status, epc, tpc, tres, ucall, locals, now, reaper_wake,
                   response, hist, temp_files, meeting_search, options>>
    /\ UNCHANGED appvars

NextSummarize == SummarizeText

SpecSummarize == InitSummarize /\ [][NextSummarize]_vars

\* C18: the bullet list summarize_text(text, n) returns has at most n
\* bullets, for every text, every n the server hands it and whether or not
\* the sentence tokenizer works.
C18_AtMostNBullets ==
    (call.fn = "summarize_text" /\ call.at = "returned") =>
        Bullets(call.ret) <= call.num_sentences

\* The same for the point counts of the documented range, 3 to 10.
InRangeAtMostNBullets ==
    (call.fn = "summarize_text" /\ call.at = "returned"
        /\ call.num_sentences >= 3 /\ call.num_sentences <= 10) =>
        Bullets(call.ret) <= call.num_sentences

\* The instance holds an index: the test of search.py:82 fails.
Indexed(ms) == ms.vectorizer.set /\ ms.sentence_vectors.set /\ ms.sentences # <<>>

\* No sentence of the index has a term of the query.
NoMatch(ms, query) ==
    \A i \in 1..Len(ms.sentences) : Terms(ms.sentences[i]) \cap Terms(query) = {}

\* An indexing stage is running.
Indexing == \E j \in JobIds : tpc[j].fn = "index_transcript" /\ ~Finished(tpc[j])

\* The one-entry list search returns for message.
Sentinel(message) == <<[sentence |-> Phrase(message), score |-> 0]>>

NextCleanup ==
    \/ \E j \in JobIds, size \in UploadSizes, form \in UploadForms :
          process_audio(j, size, form, AudioUpload)
    \/ \E j \in JobIds, fs \in UnlinkOutcomes : process_audio_task(j, fs)
    \/ \E j \in JobIds : StageRun(j)
    \/ \E j \in JobIds : TranscribeStep(j)
    \/ \E j \in JobIds : StatusCallback(j)
    \/ \E j \in JobIds : UpdateStatusWrite(j)

SpecCleanup == Init /\ [][NextCleanup]_vars

\* C21: when a job's executor has finished, on whichever path, no temporary
\* file of the job is left on disk (the uploaded copy, the WAV of the
\* executor's conversion, the WAV of the conversion inside transcription),
\* other than a file whose own os.unlink raised.
C21_TempFilesDeleted ==
    \A j \in JobIds :
        Over(j) =>
            \A k \in FileKinds :
                File(j, k) \in temp_files => hist[j].cleanup_raised = k

\* The finally block of job j's executor has printed a cleanup failure.
CleanupFailed(j) == Over(j) /\ hist[j].cleanup_raised # None

\* C22: a step of the executor in whose cleanup block a deletion raises
\* leaves the registry, and so the complete, results and error fields of the
\* job, as the except or success path before it wrote them, and ends the
\* task the way that path ended it: the failure of the deletion is not
\* raised out of the task.
C22_CleanupFailureOnlyLogged ==
    [][\A j \in JobIds :
          (~Over(j) /\ hist'[j].cleanup_raised # None) =>
              LET f == Finish(job_status, j,
                              Resume(epc[j], tpc[j], tres[j], locals[j], options[j]),
                              now)
              IN /\ job_status' = f.js
                 /\ epc'[j] = f.pc
                 /\ epc'[j] # "crashed"]_vars

\* A failed job whose cleanup could not delete the upload: both files are
\* left and the record holds the error of the pipeline.
C22_Witness ==
    \E j \in JobIds :
        /\ CleanupFailed(j)
        /\ Present(j)
        /\ job_status[j].error = hist[j].raised
        /\ ~job_status[j].complete
        /\ File(j, "upload") \in temp_files

\* ------------------------------------------- the transcription stage
\* The pipeline from the point where transcribe_audio, on its worker thread,
\* has verified the converted file and is about to call the transcription
\* service (transcription.py:229), with the clock standing still.

\* The update_status calls up to line 229 of transcribe_audio
\* (server.py:95-122, transcription.py:170-199).
TranscribingCalls ==
    SubSeq(TranscribedCalls, 1, 9)
        \o << <<15, "Audio converted to WAV format successfully">> >>

InitTranscribing ==
    /\ job_status = [j \in JobIds |->
                       [NewRecord(0) EXCEPT !.progress = 15,
                            !.message = "Audio converted to WAV format successfully"]]
    /\ epc = [j \in JobIds |-> "L123"]
    /\ tpc = [j \in JobIds |-> [run_in_threadpool("transcribe_audio") EXCEPT !.at = "L229"]]
    /\ tres = [j \in JobIds |-> None]
    /\ ucall = [j \in JobIds |-> NoCall]
    /\ locals = [j \in JobIds |-> [NoLocals EXCEPT !.wav_path = "wav"]]
    /\ now = 0
    /\ reaper_wake = SWEEP_INTERVAL
    /\ response = NoResponse
    /\ hist = [j \in JobIds |->
                 [NoHist EXCEPT !.calls = TranscribingCalls,
                                !.stages = SubSeq(PipelineOrder, 1, 3)]]
    /\ temp_files = {File(j, k) : j \in JobIds, k \in FileKinds}
    /\ meeting_search = NewMeetingSearch
    /\ call = NoApply
    /\ options = [j \in JobIds |-> SummaryOptions]
    /\ reaper = Sleeping
    /\ lifespan = "serving"

NextTranscribing ==
    \/ \E j \in JobIds : process_audio_task(j, UnlinkOk)
    \/ \E j \in JobIds : StageRun(j)
    \/ \E j \in JobIds : TranscribeStep(j)
    \/ \E j \in JobIds : StatusCallback(j)
    \/ \E j \in JobIds : UpdateStatusWrite(j)

SpecTranscribing == InitTranscribing /\ [][NextTranscribing]_vars

\* The latest update_status call made for the job is the one the record shows.
LatestUpdateWritten(j) ==
    Present(j) =>
        hist[j].calls[Len(hist[j].calls)]
            = <<job_status[j].progress, job_status[j].message>>

\* C23: the stages a job has started are always an initial part of the
\* pipeline order (format check, conversion, transcription, indexing,
\* summarization, sentiment); and at the step that starts a stage, the stage
\* before it has returned or raised, no update forwarded by the transcription
\* callback is half written, and the record shows the latest update made.
C23_StagesInOrder ==
    [][\A j \in JobIds :
          /\ IsPrefix(hist'[j].stages, PipelineOrder)
          /\ Len(hist'[j].stages) > Len(hist[j].stages) =>
                /\ tpc[j] = Idle \/ tpc[j].at \in {"ret", "exc"}
                /\ ucall[j] = NoCall
                /\ LatestUpdateWritten(j)]_vars

\* The indexing stage was started after the callback's last update.
C23_Witness ==
    \E j \in JobIds :
        /\ Len(hist[j].stages) >= 4
        /\ \E i \in 1..Len(hist[j].calls) :
              hist[j].calls[i] = <<100, "Transcription completed successfully!">>
        /\ tpc[j].fn = "index_transcript"

\* A step of job k's executor, of its stage thread or of its callback.
ExecutorStep(k) == epc'[k] # epc[k] \/ tpc'[k] # tpc[k] \/ ucall'[k] # ucall[k]

\* C24: the record of a job is changed only by a step of that job's own
\* executor or of its forwarded transcription callback, and is removed only
\* by a sweep of the reaper; a step of another job's executor, a submission
\* and a status poll leave every field of it as it was.
C24_SingleWriter ==
    [][\A j \in JobIds :
          Present(j) =>
              /\ j \notin DOMAIN job_status' => reaper_wake' # reaper_wake
              /\ (j \in DOMAIN job_status' /\ job_status'[j] # job_status[j]) =>
                    (epc'[j] # epc[j] \/ ucall'[j] # ucall[j])
              /\ (response'.handler \in {"process_audio", "get_job_status"}
                    \/ \E k \in JobIds \ {j} : ExecutorStep(k)) =>
                    (j \in DOMAIN job_status' /\ job_status'[j] = job_status[j])]_vars

\* One job has failed while the other's record is still as it was created.
C24_Witness ==
    \E j \in JobIds, k \in JobIds :
        /\ j # k
        /\ Present(j) /\ Present(k)
        /\ job_status[j].error # None
        /\ epc[k] = "queued"
        /\ job_status[k] = NewRecord(job_status[k].created_at)

\* ------------------------------------------------------ the reaper task
\* cleanup_old_jobs statement by statement, next to the handlers, the
\* executors and the worker threads.

Least(S) == CHOOSE x \in S : \A y \in S : x <= y

\* The other variables of the program, which the reaper's steps leave alone.
sweepframe == <<epc, tpc, tres, ucall, locals, now, hist, temp_files,
                meeting_search, call, options, lifespan>>

\* server.py:329-333: asyncio.sleep has ended, the task is resumed, reads the
\* clock and starts iterating job_status.items().
SweepWake ==
    /\ LoopFree
    /\ reaper.pc = "sleeping"
    /\ now >= reaper_wake
    /\ reaper' = [pc |-> "scanning", current_time |-> now,
                  keys |-> DOMAIN job_status, todo |-> DOMAIN job_status,
                  keys_to_remove |-> {}]
    /\ response' = NoResponse
    /\ UNCHANGED <<job_status, reaper_wake>>
    /\ UNCHANGED sweepframe

\* server.py:333-336: one iteration of the scan, in the dict's order of
\* insertion.  A dict whose size has changed since the iteration began makes
\* the iterator raise RuntimeError, which ends the task.
SweepScan ==
    /\ reaper.pc = "scanning"
    /\ reaper' =
          IF DOMAIN job_status # reaper.keys THEN [reaper EXCEPT !.pc = "crashed"]
          ELSE IF reaper.todo = {} THEN [reaper EXCEPT !.pc = "deleting"]
          ELSE LET j == Least(reaper.todo)
               IN [reaper EXCEPT !.todo = @ \ {j},
                                 !.keys_to_remove =
                                     IF Expired(job_status[j], reaper.current_time)
                                     THEN @ \cup {j} ELSE @]
    /\ response' = NoResponse
    /\ UNCHANGED <<job_status, reaper_wake>>
    /\ UNCHANGED sweepframe

\* server.py:338-341 and 329: one del of the second loop (KeyError, which
\* ends the task, when the key is gone), or its end: the count is printed
\* and the task sleeps again.
SweepDelete ==
    /\ reaper.pc = "deleting"
    /\ IF reaper.keys_to_remove = {}
       THEN /\ reaper' = Sleeping
            /\ reaper_wake' = now + SWEEP_INTERVAL
            /\ job_status' = job_status
       ELSE LET j == Least(reaper.keys_to_remove)
            IN /\ reaper_wake' = reaper_wake
               /\ IF j \in DOMAIN job_status
                  THEN /\ job_status' = [k \in DOMAIN job_status \ {j} |-> job_status[k]]
                       /\ reaper' = [reaper EXCEPT !.keys_to_remove = @ \ {j}]
                  ELSE /\ job_status' = job_status
                       /\ reaper' = [reaper EXCEPT !.pc = "crashed"]
    /\ response' = NoResponse
    /\ UNCHANGED sweepframe

\* server.py:43: cleanup_task.cancel() asks for CancelledError to be thrown
\* into the task at the await it is suspended at; a task that has ended is
\* left as it is.
Cancel(r) == IF r.pc = "sleeping" THEN [r EXCEPT !.pc = "cancelling"] ELSE r

\* The reaper catching the cancellation and sleeping again.
OnCancelled_Swallowed(r) == [r EXCEPT !.pc = "sleeping"]

\* server.py:328-329: CancelledError is raised by the await of line 329;
\* no handler in cleanup_old_jobs catches it, so the task ends cancelled.
OnCancelled(r) == [r EXCEPT !.pc = "cancelled"]

\* server.py:42-45: the process shuts down: the code after the yield of
\* lifespan cancels the task and awaits it.
Shutdown ==
    /\ LoopFree
    /\ lifespan = "serving"
    /\ lifespan' = "awaiting"
    /\ reaper' = Cancel(reaper)
    /\ response' = NoResponse
    /\ UNCHANGED <<job_status, reaper_wake, epc, tpc, tres, ucall, locals, now,
                   hist, temp_files, meeting_search, call, options>>

\* server.py:329: the reaper task is resumed with the cancellation.
ReaperCancelled ==
    /\ LoopFree
    /\ reaper.pc = "cancelling"
    /\ reaper' = OnCancelled(reaper)
    /\ response' = NoResponse
    /\ UNCHANGED <<job_status, reaper_wake>>
    /\ UNCHANGED sweepframe

\* server.py:45-47: the awaited task has ended; its CancelledError is
\* caught and dropped, any other exception of the task leaves lifespan.
ShutdownDone ==
    /\ LoopFree
    /\ lifespan = "awaiting"
    /\ reaper.pc \in {"cancelled", "crashed"}
    /\ lifespan' = IF reaper.pc = "cancelled" THEN "stopped" ELSE "failed"
    /\ response' = NoResponse
    /\ UNCHANGED <<job_status, reaper_wake, reaper, epc, tpc, tres, ucall,
                   locals, now, hist, temp_files, meeting_search, call, options>>

NextSweep ==
    \/ Tick
    \/ \E j \in JobIds, size \in UploadSizes, form \in UploadForms :
          process_audio(j, size, form, AudioUpload)
    \/ \E j \in JobIds : GetJobStatus(j)
    \/ \E j \in JobIds : process_audio_task(j, UnlinkOk)
    \/ \E j \in JobIds : StageRun(j)
    \/ \E j \in JobIds : TranscribeStep(j)
    \/ \E j \in JobIds : StatusCallback(j)
    \/ \E j \in JobIds : UpdateStatusWrite(j)
    \/ SweepWake
    \/ SweepScan
    \/ SweepDelete

SpecSweep == Init /\ [][NextSweep]_vars

\* The reaper is between the start of its scan and the end of its deletions.
Sweeping == reaper.pc \in {"scanning", "deleting"}

\* C25: from the start of a sweep's scan to its last deletion no submission,
\* status poll or executor step runs (only worker threads do), the set of
\* keys of the registry stays as it was while the scan lasts and afterwards
\* loses only the keys the reaper deletes, every key selected is in the
\* registry until the reaper deletes it, and the sweep raises nothing.
C25_SweepAtomicOnLoop ==
    [][Sweeping =>
          /\ epc' = epc
          /\ response'.handler \notin {"process_audio", "get_job_status"}
          /\ reaper.pc = "scanning" => DOMAIN job_status' = DOMAIN job_status
          /\ reaper.keys_to_remove \subseteq DOMAIN job_status
          /\ DOMAIN job_status' # DOMAIN job_status =>
                DOMAIN job_status \ DOMAIN job_status'
                    = reaper.keys_to_remove \ reaper'.keys_to_remove
          /\ reaper'.pc # "crashed"]_vars

\* A sweep is deleting an expired record while a worker thread of the job
\* is inside a stage call.
C25_Witness ==
    \E j \in JobIds :
        /\ reaper.pc = "deleting"
        /\ j \in reaper.keys_to_remove
        /\ StageInProgress(j)

\* ------------------------------------------------------------ shutdown
\* The uploads, the executors and the reaper, and the process shutting down.
NextShutdown ==
    \/ Tick
    \/ \E j \in JobIds, size \in UploadSizes, form \in UploadForms :
          process_audio(j, size, form, AudioUpload)
    \/ cleanup_old_jobs
    \/ \E j \in JobIds : process_audio_task(j, UnlinkOk)
    \/ \E j \in JobIds : StageRun(j)
    \/ \E j \in JobIds : TranscribeStep(j)
    \/ \E j \in JobIds : StatusCallback(j)
    \/ \E j \in JobIds : UpdateStatusWrite(j)
    \/ Shutdown
    \/ ReaperCancelled
    \/ ShutdownDone

SpecShutdown == Init /\ [][NextShutdown]_vars

\* C27: the shutdown finds the reaper in its sleep and cancels it there; from
\* then on the reaper never sleeps or sweeps again and no record leaves the
\* registry; and the shutdown ends only after the task has ended, with the
\* task's cancellation error dropped.
C27_ShutdownStopsReaper ==
    [][/\ (lifespan = "serving" /\ lifespan' # "serving") =>
              (reaper.pc = "sleeping" /\ reaper'.pc = "cancelling")
       /\ lifespan # "serving" =>
              /\ DOMAIN job_status \subseteq DOMAIN job_status'
              /\ reaper'.pc \in {"cancelling", "cancelled"}
              /\ reaper_wake' = reaper_wake
       /\ lifespan' \in {"serving", "awaiting", "stopped"}
       /\ lifespan' = "stopped" => reaper'.pc = "cancelled"]_vars

\* Shutdown is over and a record older than 24 hours, which a sweep due by
\* now would have removed, is still in the registry.
C27_Witness ==
    \E j \in JobIds :
        /\ lifespan = "stopped"
        /\ Present(j)
        /\ Expired(job_status[j], now)
        /\ now >= reaper_wake

\* ------------------------------------------------------ the reaper runs
\* The uploads, the executors and the reaper while the process serves: time
\* passes, and the event loop resumes the reaper when its sleep has ended
\* (asyncio runs every ready task, and no segment of an executor or handler
\* keeps the loop for ever).
NextLive ==
    \/ Tick
    \/ \E j \in JobIds, size \in UploadSizes, form \in UploadForms :
          process_audio(j, size, form, AudioUpload)
    \/ cleanup_old_jobs
    \/ \E j \in JobIds : process_audio_task(j, UnlinkOk)
    \/ \E j \in JobIds : StageRun(j)
    \/ \E j \in JobIds : TranscribeStep(j)
    \/ \E j \in JobIds : StatusCallback(j)
    \/ \E j \in JobIds : UpdateStatusWrite(j)

SpecLive ==
    Init /\ [][NextLive]_vars /\ WF_vars(Tick) /\ WF_vars(cleanup_old_jobs)

\* The clock of the model reaches a time at which the record has expired.
ExpiresInTime(j) == job_status[j].created_at + RETENTION < MaxTicks * ClockStep

\* C26: every record in the registry whose age passes 24 hours within the
\* time the clock covers is eventually removed, whether its job is still
\* being processed, has completed or has failed.
C26_EveryRecordEventuallyRemoved ==
    \A j \in JobIds : (Present(j) /\ ExpiresInTime(j)) ~> ~Present(j)

\* The reaper has removed the record of a job whose executor is still
\* running and the record of a job that has failed.
C26_Witness ==
    \E j \in JobIds, k \in JobIds :
        /\ epc[j] \notin {"none", "succeeded", "failed", "crashed"}
        /\ ~Present(j)
        /\ epc[k] = "failed"
        /\ ~Present(k)

\* ------------------------------------------------ the file-type hint
\* Lines 206-234 of process_audio alone, on file names and content types
\* given character by character.

UpperCase == <<"A", "B", "C", "D", "E", "F", "G", "H", "I", "J", "K", "L", "M", "N", "O", "P", "Q", "R", "S", "T", "U", "V", "W", "X", "Y", "Z">>
LowerCase == <<"a", "b", "c", "d", "e", "f", "g", "h", "i", "j", "k", "l", "m", "n", "o", "p", "q", "r", "s", "t", "u", "v", "w", "x", "y", "z">>

\* str.lower() leaving every character as it is.
Lower_Identity(c) == c

\* str.lower() of one character.
Lower(c) ==
    IF \E i \in 1..Len(UpperCase) : UpperCase[i] = c
    THEN LowerCase[CHOOSE i \in 1..Len(UpperCase) : UpperCase[i] = c]
    ELSE c

\* The str of a sequence of characters, with every character lower-cased.
RECURSIVE LowerStr(_)
LowerStr(chars) ==
    IF chars = <<>> THEN "" ELSE Lower(Head(chars)) \o LowerStr(Tail(chars))

\* The str of a sequence of characters.
RECURSIVE Join(_)
Join(chars) == IF chars = <<>> THEN "" ELSE Head(chars) \o Join(Tail(chars))

\* s.split(sep)[-1]: the characters after the last sep, all of s when it
\* has none; and len(s.split(sep)).
RECURSIVE LastPart(_, _, _)
LastPart(s, sep, acc) ==
    IF s = <<>> THEN acc
    ELSE IF Head(s) = sep THEN LastPart(Tail(s), sep, <<>>)
    ELSE LastPart(Tail(s), sep, Append(acc, Head(s)))

RECURSIVE SplitLen(_, _)
SplitLen(s, sep) ==
    IF s = <<>> THEN 1
    ELSE (IF Head(s) = sep THEN 1 ELSE 0) + SplitLen(Tail(s), sep)

\* server.py:215: the extensions taken as they are.
Recognized == {"mp3", "wav", "m4a", "flac", "aac", "ogg", "mp4", "wma"}

\* server.py:219-231: the extension for a content-type subtype.
FromSubtype(mime_subtype) ==
    IF mime_subtype \in {"mpeg", "mp3"} THEN "mp3"
    ELSE IF mime_subtype \in {"wav", "x-wav", "wave"} THEN "wav"
    ELSE IF mime_subtype \in {"aac"} THEN "aac"
    ELSE IF mime_subtype \in {"ogg", "vorbis"} THEN "ogg"
    ELSE IF mime_subtype \in {"flac"} THEN "flac"
    ELSE "mp3"

\* server.py:206-234: the extension of the temporary file, for the upload's
\* file name and content type (Unset when the part has none).
file_extension(filename, content_type) ==
    LET extension ==
            IF filename.set /\ filename.val # <<>> /\ SplitLen(filename.val, ".") > 1
            THEN LowerStr(LastPart(filename.val, ".", <<>>))
            ELSE None
    IN IF extension = None \/ extension = "" \/ extension \notin Recognized
       THEN IF content_type.set /\ content_type.val # <<>>
                 /\ \E i \in 1..Len(content_type.val) : content_type.val[i] = "/"
            THEN FromSubtype(Join(LastPart(content_type.val, "/", <<>>)))
            ELSE "mp3"
       ELSE extension

\* The file names of uploads.
FileNames ==
    {Unset} \cup {SetTo(n) : n \in {<<"t", "a", "l", "k", ".", "m", "p", "3">>,
                            <<"t", "a", "l", "k", ".", "M", "P", "3">>,
                            <<"a", ".", "b", ".", "W", "a", "v">>,
                            <<"t", "a", "l", "k", ".", "m", "4", "a">>,
                            <<"t", "a", "l", "k", ".", "f", "l", "a", "c">>,
                            <<"t", "a", "l", "k", ".", "t", "x", "t">>,
                            <<"t", "a", "l", "k">>,
                            <<"t", "a", "l", "k", ".">>,
                            <<".", "o", "g", "g">>,
                            <<>>}}

\* The content types of uploads.
ContentTypes ==
    {Unset} \cup {SetTo(c) : c \in {<<"a", "u", "d", "i", "o", "/", "m", "p", "e", "g">>,
                            <<"a", "u", "d", "i", "o", "/", "x", "-", "w", "a", "v">>,
                            <<"a", "u", "d", "i", "o", "/", "w", "a", "v", "e">>,
                            <<"a", "u", "d", "i", "o", "/", "a", "a", "c">>,
                            <<"a", "u", "d", "i", "o", "/", "v", "o", "r", "b", "i", "s">>,
                            <<"a", "u", "d", "i", "o", "/", "f", "l", "a", "c">>,
                            <<"a", "u", "d", "i", "o", "/", "W", "A", "V">>,
                            <<"t", "e", "x", "t", "/", "p", "l", "a", "i", "n">>,
                            <<"w", "a", "v">>,
                            <<>>}}

InitHint ==
    /\ job_status = << >>
    /\ epc = [j \in JobIds |-> "none"]
    /\ tpc = [j \in JobIds |-> Idle]
    /\ tres = [j \in JobIds |-> None]
    /\ ucall = [j \in JobIds |-> NoCall]
    /\ locals = [j \in JobIds |-> NoLocals]
    /\ now = 0
    /\ reaper_wake = SWEEP_INTERVAL
    /\ response = NoResponse
    /\ hist = [j \in JobIds |-> NoHist]
    /\ temp_files = {}
    /\ meeting_search = NewMeetingSearch
    /\ options = [j \in JobIds |-> SummaryOptions]
    /\ reaper = Sleeping
    /\ lifespan = "serving"
    /\ call \in {[fn |-> "file_extension", at |-> "called", filename |-> n,
                  content_type |-> c, ret |-> None] :
                    n \in FileNames, c \in ContentTypes}

\* server.py:206-234: the hint is determined.
DetermineExtension ==
    /\ call.fn = "file_extension"
    /\ call.at = "called"
    /\ call' = [call EXCEPT !.at = "returned",
                            !.ret = file_extension(call.filename, call.content_type)]
    /\ UNCHANGED <<job_status, epc, tpc, tres, ucall, locals, now, reaper_wake,
                   response, hist, temp_files, meeting_search, options>>
    /\ UNCHANGED appvars

NextHint == DetermineExtension

SpecHint == InitHint /\ [][NextHint]_vars

\* The file name ends in a dot followed by the characters of e, which hold
\* no dot.
HasSuffix(name, e) ==
    /\ name.set
    /\ Len(name.val) > Len(e)
    /\ name.val[Len(name.val) - Len(e)] = "."
    /\ SubSeq(name.val, Len(name.val) - Len(e) + 1, Len(name.val)) = e
    /\ \A i \in 1..Len(e) : e[i] # "."

\* The spellings of a recognized extension in lower and upper case letters.
Spellings ==
    {<<"m", "p", "3">>, <<"M", "P", "3">>, <<"W", "a", "v">>, <<"m", "4", "a">>,
     <<"f", "l", "a", "c">>, <<"o", "g", "g">>}

\* The recognized extension a spelling stands for.
Spelled(e) ==
    CASE e \in {<<"m", "p", "3">>, <<"M", "P", "3">>} -> "mp3"
      [] e = <<"W", "a", "v">> -> "wav"
      [] e = <<"m", "4", "a">> -> "m4a"
      [] e = <<"f", "l", "a", "c">> -> "flac"
      [] e = <<"o", "g", "g">> -> "ogg"

\* The content type is some type, a slash, and the characters of sub.
HasSubtype(ct, sub) ==
    /\ ct.set
    /\ Len(ct.val) > Len(sub)
    /\ ct.val[Len(ct.val) - Len(sub)] = "/"
    /\ SubSeq(ct.val, Len(ct.val) - Len(sub) + 1, Len(ct.val)) = sub

\* The subtypes that stand for an extension, and the extension of each.
Subtypes ==
    {<<"m", "p", "e", "g">>, <<"m", "p", "3">>, <<"w", "a", "v">>, <<"x", "-", "w", "a", "v">>, <<"w", "a", "v", "e">>, <<"a", "a", "c">>, <<"o", "g", "g">>, <<"v", "o", "r", "b", "i", "s">>, <<"f", "l", "a", "c">>}

\* C28: the hint is the lower-cased extension of the file name when that is
\* a recognized extension; otherwise the extension that stands for the
\* subtype of the content type (mpeg, mp3: mp3; wav, x-wav, wave: wav; aac:
\* aac; ogg, vorbis: ogg; flac: flac); otherwise mp3; and it is always a
\* recognized extension.
C28_FileTypeHint ==
    (call.fn = "file_extension" /\ call.at = "returned") =>
        LET named == \E e \in Spellings : HasSuffix(call.filename, e)
            typed == \E s \in Subtypes : HasSubtype(call.content_type, s)
        IN /\ call.ret \in Recognized
           /\ \A e \in Spellings :
                 HasSuffix(call.filename, e) => call.ret = Spelled(e)
           /\ \A s \in Subtypes :
                 (~named /\ HasSubtype(call.content_type, s)) =>
                     call.ret = FromSubtype(Join(s))
           /\ (~named /\ ~typed) => call.ret = "mp3"

\* "a.b.Wav" sent as audio/mpeg is kept as a wav file.
C28_Witness ==
    /\ call.fn = "file_extension"
    /\ call.at = "returned"
    /\ call.filename = SetTo(<<"a", ".", "b", ".", "W", "a", "v">>)
    /\ call.content_type = SetTo(<<"a", "u", "d", "i", "o", "/", "m", "p", "e", "g">>)
    /\ call.ret = "wav"

\* C29: a record whose complete is true has progress 100, the message
\* 'Processing complete' and results with exactly the keys transcript,
\* summary and sentiment; a record whose error is set has progress 0 and
\* the message 'Error: ' followed by the error.
C29_TerminalRecordShape ==
    \A j \in JobIds :
        Present(j) =>
            /\ job_status[j].complete =>
                  /\ job_status[j].progress = 100
                  /\ job_status[j].message = "Processing complete"
                  /\ DOMAIN job_status[j].results = {"transcript", "summary", "sentiment"}
            /\ job_status[j].error # None =>
                  /\ job_status[j].progress = 0
                  /\ job_status[j].message = "Error: " \o job_status[j].error

\* One job has completed and the other has failed in the transcription
\* service call, after the callback's updates.
C29_Witness ==
    \E j \in JobIds, k \in JobIds :
        /\ Present(j) /\ Present(k)
        /\ job_status[j].complete
        /\ job_status[k].error # None
        /\ Len(hist[k].stages) = 3

\* ------------------------------------------------- the uploads' content
\* Submissions of every kind of upload.
NextContent ==
    \E j \in JobIds, size \in UploadSizes, upload \in Uploads :
        process_audio(j, size, NoForm, upload)

SpecContent == Init /\ [][NextContent]_vars

\* C30: a non-empty upload is not refused, and when a warning was printed
\* about it (a content type that is not audio or video, a sniffed MIME type
\* that is not audio or video, a file validate_audio_file finds invalid)
\* the step that answers it returns a job id, creates the job's record and
\* schedules its executor.
C30_ContentNeverRejected ==
    [][(response'.handler = "process_audio" /\ response'.file_size > 0
            /\ (response'.body.kind = "ok" => response'.warnings # {})) =>
          /\ response'.body.kind = "ok"
          /\ response'.body.job_id \notin DOMAIN job_status
          /\ response'.body.job_id \in DOMAIN job_status'
          /\ job_status'[response'.body.job_id] = NewRecord(now)
          /\ epc'[response'.body.job_id] = "queued"]_vars

\* An upload with all three warnings has been accepted.
C30_Witness ==
    /\ response.handler = "process_audio"
    /\ response.file_size > 0
    /\ response.body.kind = "ok"
    /\ "content-type" \in response.warnings
    /\ "python-magic" \in response.warnings
    /\ Cardinality(response.warnings) = 3
    /\ epc[response.body.job_id] = "queued"
====
